---- MODULE Spec2Model ----
(***************************************************************************)
(* nameko_amqp_retry/backoff.py: the Backoff schedule (Backoff.next) and   *)
(* the BackoffPublisher (make_queue, republish), together with the part    *)
(* of the broker and of the AMQP client that republish talks to: the       *)
(* headers exchange "backoff", the per-delay queues with their x-expires   *)
(* timer and dead-lettering, the pooled producers and the                  *)
(* returned_messages queue of their channels.                              *)
(*                                                                         *)
(* Durations are integers in milliseconds, except where the code hands a   *)
(* value to an interface that takes seconds.  Python floats are modelled   *)
(* as exact rationals (numerator, denominator).                            *)
(***************************************************************************)
EXTENDS Integers, Sequences, FiniteSets, TLC

\* ------------------------------------------------------------------------
\* Bounds of the model
\* ------------------------------------------------------------------------

\* the limits enumerated are 0 .. MaxLimit (0 = unlimited)
MaxLimit == 2

\* a consumer fails at most this many deliveries of one message
MaxFailures == 3

\* int(random.gauss(mean, sigma)) ranges over mean - MaxDevBelow .. mean + MaxDevAbove
MaxDevBelow == 12
MaxDevAbove == 3

\* the delivery histories enumerated for Backoff.next alone: up to MaxHistory
\* records, each with a count of 1 .. MaxCount
MaxHistory == 2
MaxCount == 2

\* ------------------------------------------------------------------------
\* Program constants
\* ------------------------------------------------------------------------

EXPIRY_GRACE_PERIOD == 50000

\* nameko.utils.retry.retry: max_attempts defaults to 3 retries after the first call
max_attempts == 3

\* Python's None, for the fields and locals that hold a number once set
None == -1

\* BackoffPublisher.exchange
exchange == [type |-> "headers", name |-> "backoff"]

\* the policies enumerated: Backoff.schedule of a subclass
Schedules == { <<2, 4>>, <<10000, 20000, 30000>> }

\* (random_sigma, random_groups_per_sigma) of a subclass; <<100, 5>> are the defaults
Jitters == { <<0, 5>>, <<4, 2>>, <<2, 3>>, <<100, 5>> }

\* the ones a message's whole life is followed under
LifeJitters == { <<0, 5>>, <<100, 5>> }

\* ------------------------------------------------------------------------
\* Python arithmetic
\* ------------------------------------------------------------------------

abs(x) == IF x < 0 THEN -x ELSE x

Min(a, b) == IF a <= b THEN a ELSE b

\* int(n / d) for d > 0: truncation toward zero
IntOfQuotient(n, d) == IF n >= 0 THEN n \div d ELSE -((-n) \div d)

\* round(n / d) for d > 0: the nearest integer, a tie going to the even one
RoundOfQuotient(n, d) ==
    LET q == n \div d
        r == n % d
    IN  IF 2 * r < d THEN q
        ELSE IF 2 * r > d THEN q + 1
        ELSE IF q % 2 = 0 THEN q ELSE q + 1

\* ------------------------------------------------------------------------
\* Module-level functions
\* ------------------------------------------------------------------------

DigitChars == <<"0", "1", "2", "3", "4", "5", "6", "7", "8", "9">>

RECURSIVE Digits(_)
\* the decimal digits of n >= 0
Digits(n) ==
    IF n < 10 THEN DigitChars[n + 1]
    ELSE Digits(n \div 10) \o DigitChars[(n % 10) + 1]

\* "{}".format(n) for an int n
format_int(n) == IF n < 0 THEN "-" \o Digits(-n) ELSE Digits(n)

\* the name made of the delay in whole seconds
get_backoff_queue_name_seconds(expiration) ==
    "backoff--" \o format_int(expiration \div 1000) \o "ms"

\* "backoff--{}ms".format(expiration)
get_backoff_queue_name(expiration) == "backoff--" \o format_int(expiration) \o "ms"

\* round_to_nearest without the multiplication by interval
round_to_nearest_unscaled(value, interval) ==
    RoundOfQuotient(value * interval[2], interval[1])

\* int(interval * round(float(value) / interval)); interval = <<num, den>>
round_to_nearest(value, interval) ==
    IntOfQuotient(interval[1] * RoundOfQuotient(value * interval[2], interval[1]),
                  interval[2])

\* ------------------------------------------------------------------------
\* State
\* ------------------------------------------------------------------------

\* the consumers; consumer c handles message c and calls republish for it
Calls == {1, 2}

\* the pooled producers, each with a channel of its own
Channels == {1, 2}

VARIABLES
    schedule,                 \* Backoff.schedule
    limit,                    \* Backoff.limit
    random_sigma,             \* Backoff.random_sigma
    random_groups_per_sigma,  \* Backoff.random_groups_per_sigma
    pc,                       \* pc[c]: where consumer c's republish call is
    message,                  \* message[c]: the message consumer c was delivered
    fails,                    \* fails[c]: deliveries of message c that failed so far
    backoff_exc,              \* backoff_exc[c]: the Backoff instance of the call
    local,                    \* local[c]: the local variables of the call
    published,                \* published[c]: the publish attempts of the call
    events,                   \* events[c]: the steps the call has taken, in order
    successes,                \* successes[c]: republish calls that returned, per message
    free,                     \* the producers in the pool
    returned_messages,        \* returned_messages[ch]: the channel's queue of returns
    queues,                   \* the delay queues the broker holds
    held,                     \* the messages waiting in delay queues
    target,                   \* the messages dead-lettered to their target queue
    dropped                   \* the messages lost with an expired delay queue

vars == <<schedule, limit, random_sigma, random_groups_per_sigma, pc, message,
          fails, backoff_exc, local, published, events, successes, free,
          returned_messages, queues, held, target, dropped>>

policy == <<schedule, limit, random_sigma, random_groups_per_sigma>>

\* the name of the queue consumer c consumes from
target_queue(c) == "service-" \o format_int(c)

\* the headers of a message when it first reaches its consumer
InitialHeaders ==
    { "trace" :> "t",
      ("trace" :> "t") @@
      ("x-death" :> << [exchange |-> "other", queue |-> "dlq", count |-> 2] >>) }

\* a message as the consumer holds it; properties['application_headers'] is the
\* object message.headers, and properties holds the other properties
Message(headers) ==
    [body |-> "body", headers |-> headers, properties |-> [content_type |-> "json"]]

NoLocals ==
    [expiration |-> None, queue |-> << >>, producer |-> << >>,
     headers |-> << >>, properties |-> << >>, expiration_seconds |-> None,
     counter |-> 0, returned |-> << >>, raised |-> << >>,
     \* what str(backoff_exc) gave when it was last called
     shown |-> ""]

\* Backoff.__init__
Backoff_init == [_total_attempts |-> None, _next_expiration |-> None]

InitWith(active, headers) ==
    /\ pc = [c \in Calls |-> IF c \in active THEN "start" ELSE "absent"]
    /\ message \in { m \in [Calls -> { Message(h) : h \in headers }] :
                       \A c \in Calls \ active : m[c] = Message("trace" :> "t") }
    /\ fails = [c \in Calls |-> IF c \in active THEN 1 ELSE 0]
    /\ backoff_exc = [c \in Calls |-> Backoff_init]
    /\ local = [c \in Calls |-> NoLocals]
    /\ published = [c \in Calls |-> << >>]
    /\ events = [c \in Calls |-> << >>]
    /\ successes = [c \in Calls |-> 0]
    /\ free = Channels
    /\ returned_messages = [ch \in Channels |-> << >>]
    /\ queues = {}
    /\ held = {}
    /\ target = {}
    /\ dropped = {}

\* one consumer and its message
Init ==
    /\ schedule \in Schedules
    /\ limit \in 0 .. MaxLimit
    /\ \E j \in LifeJitters :
          /\ random_sigma = j[1]
          /\ random_groups_per_sigma = j[2]
    /\ InitWith({1}, InitialHeaders)

\* two consumers, each with a message of its own, sharing the producer pool
InitPool ==
    /\ schedule = <<2, 4>>
    /\ limit = 1
    /\ random_sigma = 0
    /\ random_groups_per_sigma = 5
    /\ InitWith({1, 2}, { "trace" :> "t" })

\* ------------------------------------------------------------------------
\* Backoff
\* ------------------------------------------------------------------------

\* message.headers.get('x-death', ())
x_death(headers) ==
    IF "x-death" \in DOMAIN headers THEN headers["x-death"] ELSE << >>

RECURSIVE total_attempts_from(_, _, _)
\* the loop of lines 60-63 from record i on
total_attempts_from(deaths, backoff_exchange_name, i) ==
    IF i > Len(deaths) THEN 0
    ELSE (IF deaths[i].exchange = backoff_exchange_name
          THEN deaths[i].count ELSE 0)
         + total_attempts_from(deaths, backoff_exchange_name, i + 1)

\* the loop without the test of the record's exchange
total_attempts_any_exchange(msg, backoff_exchange_name) ==
    total_attempts_from(x_death(msg.headers), "other", 1)
    + total_attempts_from(x_death(msg.headers), "backoff", 1)

\* the loop stopped after the newest record
total_attempts_newest_only(msg, backoff_exchange_name) ==
    LET deaths == x_death(msg.headers)
    IN  IF deaths # << >> /\ deaths[1].exchange = backoff_exchange_name
        THEN deaths[1].count ELSE 0

\* lines 60-63
total_attempts(msg, backoff_exchange_name) ==
    total_attempts_from(x_death(msg.headers), backoff_exchange_name, 1)

\* the test with > for >=
limit_reached_strict(lim, total) == lim # 0 /\ total > lim

\* line 65: self.limit and total_attempts >= self.limit
limit_reached(lim, total) == lim # 0 /\ total >= lim

\* an index past the end wraps around instead of staying on the last item
get_next_schedule_item_wrap(index) == schedule[(index % Len(schedule)) + 1]

\* Backoff.get_next_schedule_item
get_next_schedule_item(index) ==
    IF index >= Len(schedule) THEN schedule[Len(schedule)]
    ELSE schedule[index + 1]

\* line 77: self.random_sigma / self.random_groups_per_sigma
group_size == <<random_sigma, random_groups_per_sigma>>

\* the values int(random.gauss(expiration, self.random_sigma)) may take
Samples(expiration) ==
    IF random_sigma = 0 THEN {expiration}
    ELSE (expiration - MaxDevBelow) .. (expiration + MaxDevAbove)

\* lines 73-81, given the sample drawn on line 76
next_expiration(total, randomised) ==
    LET expiration == get_next_schedule_item(total)
    IN  abs(IF random_sigma # 0
            THEN round_to_nearest(randomised, group_size)
            ELSE expiration)

\* __str__ testing the delay for truth instead of comparing it with None
Backoff_str_truthy(self) ==
    "Backoff("
    \o (IF self._next_expiration # None /\ self._next_expiration # 0
        THEN "retry #" \o format_int(self._total_attempts + 1)
             \o " in " \o format_int(self._next_expiration) \o "ms"
        ELSE "uninitialised")
    \o ")"

\* Backoff.__str__
Backoff_str(self) ==
    "Backoff("
    \o (IF self._next_expiration # None
        THEN "retry #" \o format_int(self._total_attempts + 1)
             \o " in " \o format_int(self._next_expiration) \o "ms"
        ELSE "uninitialised")
    \o ")"

\* Expired raised without a cause
Backoff_next_no_cause(self, msg, backoff_exchange_name, randomised, c) ==
    LET total == total_attempts(msg, backoff_exchange_name)
        expiration == next_expiration(total, randomised)
    IN  IF limit_reached(limit, total)
        THEN [raised |-> [type |-> "Expired", cause |-> << >>],
              value |-> None, self |-> self]
        ELSE [raised |-> << >>, value |-> expiration,
              self |-> [_total_attempts |-> total,
                        _next_expiration |-> expiration]]

\* Backoff.next on instance self: what it raises, what it returns and the
\* instance afterwards
Backoff_next(self, msg, backoff_exchange_name, randomised, c) ==
    LET total == total_attempts(msg, backoff_exchange_name)
        expiration == next_expiration(total, randomised)
    IN  IF limit_reached(limit, total)
        THEN [raised |-> [type |-> "Expired", cause |-> <<"Backoff", c>>],
              value |-> None, self |-> self]
        ELSE [raised |-> << >>, value |-> expiration,
              self |-> [_total_attempts |-> total,
                        _next_expiration |-> expiration]]

\* ------------------------------------------------------------------------
\* BackoffPublisher
\* ------------------------------------------------------------------------

\* BackoffPublisher.make_queue
make_queue(expiration) ==
    [name |-> get_backoff_queue_name(expiration),
     exchange |-> exchange,
     binding_arguments |-> ("backoff" :> expiration) @@ ("x-match" :> "any"),
     queue_arguments |-> ("x-expires" :> expiration + EXPIRY_GRACE_PERIOD) @@
                         ("x-dead-letter-exchange" :> "")]

\* ------------------------------------------------------------------------
\* The broker and the client library, as republish uses them
\* ------------------------------------------------------------------------

\* queue.declare: the broker creates the queue, or, for a queue it holds,
\* takes the declaration as a use that restarts the x-expires timer
Declare(qs, queue) ==
    { q \in qs : q.name # queue.name } \cup
    { [name |-> queue.name,
       binding_arguments |-> queue.binding_arguments,
       queue_arguments |-> queue.queue_arguments,
       idle_left |-> queue.queue_arguments["x-expires"]] }

\* the headers exchange: with x-match "any" a queue receives the message when
\* one of its binding arguments (the x- ones aside) is a header of the message
Matches(q, headers) ==
    \E k \in DOMAIN q.binding_arguments \ {"x-match"} :
        k \in DOMAIN headers /\ headers[k] = q.binding_arguments[k]

Route(headers) == { q \in queues : Matches(q, headers) }

\* kombu's Producer.publish takes expiration in seconds and sets the AMQP
\* expiration property, which is in milliseconds
expiration_property(expiration_seconds) == expiration_seconds * 1000

\* the x-death header after the broker dead-letters a message out of queue:
\* one record per queue, the newest first, its count one more each time
dead_lettered(deaths, queue_name, exchange_name) ==
    LET old == { i \in 1 .. Len(deaths) : deaths[i].queue = queue_name }
        n == IF old = {} THEN 0 ELSE deaths[CHOOSE i \in old : TRUE].count
        rest == SelectSeq(deaths, LAMBDA d : d.queue # queue_name)
    IN  << [exchange |-> exchange_name, queue |-> queue_name, count |-> n + 1] >>
        \o rest

\* headers.setdefault(key, value): a value the dict holds is kept
SetItem_setdefault(headers, key, value) ==
    [k \in DOMAIN headers \cup {key} |->
        IF k \in DOMAIN headers THEN headers[k] ELSE value]

\* headers[key] = value on a dict
SetItem(headers, key, value) ==
    [k \in DOMAIN headers \cup {key} |-> IF k = key THEN value ELSE headers[k]]

\* ------------------------------------------------------------------------
\* BackoffPublisher.republish, one action per step
\* ------------------------------------------------------------------------

Step(c, name) == events' = [events EXCEPT ![c] = Append(@, name)]

Steps(c, names) == events' = [events EXCEPT ![c] = @ \o names]

\* the queue made and declared before backoff_exc.next is called
RepublishNext_declare_first(c) ==
    /\ pc[c] = "start"
    /\ \E randomised \in
            Samples(get_next_schedule_item(total_attempts(message[c], exchange.name))) :
          LET r == Backoff_next(backoff_exc[c], message[c], exchange.name,
                                randomised, c)
              queue == make_queue(next_expiration(
                           total_attempts(message[c], exchange.name), randomised))
          IN  /\ backoff_exc' = [backoff_exc EXCEPT ![c] = r.self]
              /\ queues' = Declare(queues, queue)
              /\ Step(c, "make_queue")
              /\ IF r.raised # << >>
                 THEN /\ pc' = [pc EXCEPT ![c] = "Expired"]
                      /\ local' = [local EXCEPT ![c].raised = r.raised,
                                                ![c].queue = queue]
                 ELSE /\ pc' = [pc EXCEPT ![c] = "get_producer"]
                      /\ local' = [local EXCEPT ![c].expiration = r.value,
                                                ![c].queue = queue]
    /\ UNCHANGED <<policy, message, fails, published, successes, free,
                   returned_messages, held, target, dropped>>

\* lines 125-126: backoff_exc.next(message, self.exchange.name), make_queue
RepublishNext(c) ==
    /\ pc[c] = "start"
    /\ \E randomised \in
            Samples(get_next_schedule_item(total_attempts(message[c], exchange.name))) :
          LET r == Backoff_next(backoff_exc[c], message[c], exchange.name,
                                randomised, c)
          IN  /\ backoff_exc' = [backoff_exc EXCEPT ![c] = r.self]
              /\ IF r.raised # << >>
                 THEN /\ pc' = [pc EXCEPT ![c] = "Expired"]
                      /\ local' = [local EXCEPT ![c].raised = r.raised]
                      /\ UNCHANGED events
                 ELSE /\ pc' = [pc EXCEPT ![c] = "get_producer"]
                      /\ local' = [local EXCEPT ![c].expiration = r.value,
                                                ![c].queue = make_queue(r.value)]
                      /\ Step(c, "make_queue")
    /\ UNCHANGED <<policy, message, fails, published, successes, free,
                   returned_messages, queues, held, target, dropped>>

\* a producer that stays in the pool while the call uses it
GetProducer_shared(c) ==
    /\ pc[c] = "get_producer"
    /\ \E ch \in free : local' = [local EXCEPT ![c].producer = ch]
    /\ pc' = [pc EXCEPT ![c] = "prepare"]
    /\ Step(c, "get_producer")
    /\ UNCHANGED <<policy, message, fails, backoff_exc, published, successes, free,
                   returned_messages, queues, held, target, dropped>>

\* line 130: a producer is taken from the pool for the length of the with block
GetProducer(c) ==
    /\ pc[c] = "get_producer"
    /\ \E ch \in free :
          /\ free' = free \ {ch}
          /\ local' = [local EXCEPT ![c].producer = ch]
    /\ pc' = [pc EXCEPT ![c] = "prepare"]
    /\ Step(c, "get_producer")
    /\ UNCHANGED <<policy, message, fails, backoff_exc, published, successes,
                   returned_messages, queues, held, target, dropped>>

\* lines 132-136: properties is a copy of the dict, headers is the message's
\* own headers dict, which the assignment on line 135 writes to
Prepare(c) ==
    /\ pc[c] = "prepare"
    /\ LET headers == SetItem(message[c].headers, "backoff", local[c].expiration)
       IN  /\ message' = [message EXCEPT ![c].headers = headers]
           /\ local' = [local EXCEPT
                           ![c].properties = message[c].properties,
                           ![c].headers = headers,
                           ![c].expiration_seconds = local[c].expiration]
    /\ pc' = [pc EXCEPT ![c] = "maybe_declare"]
    /\ UNCHANGED <<policy, fails, backoff_exc, published, events, successes, free,
                   returned_messages, queues, held, target, dropped>>

\* line 141: maybe_declare(queue, producer.channel, ...)
MaybeDeclare(c) ==
    /\ pc[c] = "maybe_declare"
    /\ queues' = Declare(queues, local[c].queue)
    /\ pc' = [pc EXCEPT ![c] = "publish"]
    /\ Step(c, "declare")
    /\ UNCHANGED <<policy, message, fails, backoff_exc, local, published, successes,
                   free, returned_messages, held, target, dropped>>

\* the with block is left: the producer goes back to the pool
Release(c) == free' = free \cup {local[c].producer}

\* a retry that is not counted
Undeliverable_uncounted(c, loc) ==
    /\ pc' = [pc EXCEPT ![c] = "publish"]
    /\ local' = [local EXCEPT ![c] = loc]
    /\ UNCHANGED free

\* the last UndeliverableMessage swallowed instead of raised
Undeliverable_swallowed(c, loc) ==
    IF loc.counter = max_attempts
    THEN /\ pc' = [pc EXCEPT ![c] = "done"]
         /\ local' = [local EXCEPT ![c] = loc]
         /\ Release(c)
    ELSE /\ pc' = [pc EXCEPT ![c] = "publish"]
         /\ local' = [local EXCEPT ![c] = [loc EXCEPT !.counter = @ + 1]]
         /\ UNCHANGED free

\* nameko's retry decorator around publish(), on UndeliverableMessage: the
\* exception is raised once max_attempts retries were made, else publish()
\* is called again. loc: the locals of the call as publish() left them
Undeliverable(c, loc) ==
    IF loc.counter = max_attempts
    THEN /\ pc' = [pc EXCEPT ![c] = "UndeliverableMessage"]
         /\ local' = [local EXCEPT ![c] =
                         [loc EXCEPT !.raised = [type |-> "UndeliverableMessage"]]]
         /\ Release(c)
    ELSE /\ pc' = [pc EXCEPT ![c] = "publish"]
         /\ local' = [local EXCEPT ![c] = [loc EXCEPT !.counter = @ + 1]]
         /\ UNCHANGED free

\* the channel errors the broker answers a declaration with: the queue exists
\* with other arguments, or the user may not configure it
DeclareErrors ==
    { [type |-> "ChannelError", text |-> <<"PRECONDITION_FAILED">>],
      [type |-> "ChannelError", text |-> <<"ACCESS_REFUSED">>] }

\* the channel error of a mandatory message the broker could not route
NoRouteError == [type |-> "ChannelError", text |-> <<"Basic.return", "NO_ROUTE">>]

\* line 159: "NO_ROUTE" in str(exc)
IsNoRoute(exc) == \E i \in DOMAIN exc.text : exc.text[i] = "NO_ROUTE"

\* every channel error taken for an undeliverable message
OnChannelError_any(c, exc) == Undeliverable(c, local[c])

\* lines 158-161: the handler of a ChannelError raised by producer.publish.
\* NO_ROUTE becomes UndeliverableMessage, which the retry decorator handles;
\* any other error is raised again and leaves republish
OnChannelError(c, exc) ==
    IF IsNoRoute(exc)
    THEN Undeliverable(c, local[c])
    ELSE /\ pc' = [pc EXCEPT ![c] = "ChannelError"]
         /\ local' = [local EXCEPT ![c].raised = exc]
         /\ Release(c)

\* lines 146-157, first half: publish() starts with no local bound, and
\* producer.publish declares the entities of its declare list, which the
\* broker accepts or answers with a channel error
PublishDeclare(c) ==
    /\ pc[c] = "publish"
    /\ \/ /\ queues' = Declare(queues, local[c].queue)
          /\ pc' = [pc EXCEPT ![c] = "basic_publish"]
          /\ local' = [local EXCEPT ![c].returned = << >>]
          /\ Step(c, "declare")
          /\ UNCHANGED free
       \/ /\ \E exc \in DeclareErrors : OnChannelError(c, exc)
          /\ Step(c, "channel_error")
          /\ UNCHANGED queues
    /\ UNCHANGED <<policy, message, fails, backoff_exc, published,
                   successes, returned_messages, held, target, dropped>>

\* the attempt sent with the name of the delay queue as its routing key
Attempt_to_delay_queue(c) ==
    [body |-> message[c].body,
     headers |-> local[c].headers,
     exchange |-> exchange,
     routing_key |-> local[c].queue.name,
     expiration |-> expiration_property(local[c].expiration_seconds),
     mandatory |-> TRUE,
     declare |-> <<local[c].queue.exchange, local[c].queue>>,
     properties |-> local[c].properties,
     call |-> <<c, fails[c]>>,
     number |-> Len(published[c]) + 1]

\* the attempt as producer.publish sends it
Attempt(c) ==
    [body |-> message[c].body,
     headers |-> local[c].headers,
     exchange |-> exchange,
     routing_key |-> target_queue(c),
     expiration |-> expiration_property(local[c].expiration_seconds),
     mandatory |-> TRUE,
     declare |-> <<local[c].queue.exchange, local[c].queue>>,
     properties |-> local[c].properties,
     \* which attempt of which call this is: not part of what is sent
     call |-> <<c, fails[c]>>,
     number |-> Len(published[c]) + 1]

\* success reported as soon as the message is sent, without the check
BasicPublish_unchecked(c) ==
    /\ pc[c] = "basic_publish"
    /\ LET a == Attempt(c)
       IN  /\ published' = [published EXCEPT ![c] = Append(@, a)]
           /\ held' = held \cup
                  { [queue |-> q.name, message |-> a, ttl_left |-> a.expiration,
                     delay |-> local[c].expiration, waited |-> 0,
                     queue_left |-> q.idle_left] : q \in Route(a.headers) }
    /\ Step(c, "publish")
    /\ pc' = [pc EXCEPT ![c] = "done"]
    /\ successes' = [successes EXCEPT ![c] = @ + 1]
    /\ Release(c)
    /\ UNCHANGED <<policy, message, fails, backoff_exc, local, returned_messages,
                   queues, target, dropped>>

\* lines 146-161, second half: the message is sent with the mandatory flag.
\* The broker routes it into the queues whose binding matches; when there is
\* none it returns it, which the client either raises as a channel error
\* (NO_ROUTE) or puts on the channel's returned_messages
BasicPublish(c) ==
    /\ pc[c] = "basic_publish"
    /\ LET a == Attempt(c)
           to == Route(a.headers)
       IN  /\ published' = [published EXCEPT ![c] = Append(@, a)]
           /\ held' = held \cup
                  { [queue |-> q.name, message |-> a, ttl_left |-> a.expiration,
                     \* for the properties: the delay of the call, the time
                     \* waited so far, the time the queue had left
                     delay |-> local[c].expiration, waited |-> 0,
                     queue_left |-> q.idle_left] : q \in to }
           /\ IF to # {}
              THEN /\ pc' = [pc EXCEPT ![c] = "check"]
                   /\ Step(c, "publish")
                   /\ UNCHANGED <<returned_messages, local, free>>
              ELSE \/ /\ returned_messages' =
                           [returned_messages EXCEPT ![local[c].producer] =
                               Append(@, a)]
                      /\ pc' = [pc EXCEPT ![c] = "check"]
                      /\ Step(c, "publish")
                      /\ UNCHANGED <<local, free>>
                   \/ /\ OnChannelError(c, NoRouteError)
                      /\ Steps(c, <<"publish", "channel_error">>)
                      /\ UNCHANGED returned_messages
    /\ UNCHANGED <<policy, message, fails, backoff_exc, successes, queues, target,
                   dropped>>

\* the check looking at the first return without taking it off the queue
Check_peek(c) ==
    /\ pc[c] = "check"
    /\ Step(c, "check")
    /\ LET ch == local[c].producer
       IN  IF returned_messages[ch] = << >>
           THEN /\ pc' = [pc EXCEPT ![c] = "done"]
                /\ successes' = [successes EXCEPT ![c] = @ + 1]
                /\ Release(c)
                /\ UNCHANGED local
           ELSE /\ Undeliverable(c, [local[c] EXCEPT
                                         !.returned = Head(returned_messages[ch])])
                /\ UNCHANGED successes
    /\ UNCHANGED <<policy, message, fails, backoff_exc, published, queues, held,
                   target, dropped, returned_messages>>

\* lines 162-168: returned_messages.get_nowait()
Check(c) ==
    /\ pc[c] = "check"
    /\ Step(c, "check")
    /\ LET ch == local[c].producer
       IN  IF returned_messages[ch] = << >>
           THEN /\ pc' = [pc EXCEPT ![c] = "done"]
                /\ successes' = [successes EXCEPT ![c] = @ + 1]
                /\ Release(c)
                /\ UNCHANGED <<returned_messages, local>>
           ELSE /\ returned_messages' =
                      [returned_messages EXCEPT ![ch] = Tail(@)]
                /\ Undeliverable(c, [local[c] EXCEPT
                                         !.returned = Head(returned_messages[ch])])
                /\ UNCHANGED successes
    /\ UNCHANGED <<policy, message, fails, backoff_exc, published, queues, held,
                   target, dropped>>

\* ------------------------------------------------------------------------
\* The broker's timers and the consumer
\* ------------------------------------------------------------------------

\* a message whose expiration has run out is dead-lettered: the queue's
\* x-dead-letter-exchange is the default exchange, which delivers it to the
\* queue its routing key names, with the x-death header brought up to date
DeadLetter(h) ==
    /\ h \in held
    /\ h.ttl_left = 0
    /\ held' = held \ {h}
    /\ target' = target \cup
          { [queue |-> h.message.routing_key,
             from |-> h.queue,
             call |-> h.message.call,
             delay |-> h.delay,
             waited |-> h.waited,
             message |->
                [body |-> h.message.body,
                 headers |-> SetItem(h.message.headers, "x-death",
                                dead_lettered(x_death(h.message.headers), h.queue,
                                              h.message.exchange.name)),
                 properties |-> h.message.properties]] }
    /\ UNCHANGED <<policy, pc, message, fails, backoff_exc, local, published,
                   events, successes, free, returned_messages, queues, dropped>>

\* a queue nothing has used for x-expires milliseconds is deleted, and the
\* messages it holds are discarded with it
QueueExpire(q) ==
    /\ q \in queues
    /\ q.idle_left = 0
    /\ queues' = queues \ {q}
    /\ held' = { h \in held : h.queue # q.name }
    /\ dropped' = dropped \cup { h \in held : h.queue = q.name }
    /\ UNCHANGED <<policy, pc, message, fails, backoff_exc, local, published,
                   events, successes, free, returned_messages, target>>

Timers == { h.ttl_left : h \in held } \cup { q.idle_left : q \in queues }

\* time passes, up to the next expiry
AdvanceTime ==
    /\ Timers # {}
    /\ 0 \notin Timers
    /\ LET dt == CHOOSE t \in Timers : \A u \in Timers : t <= u
       IN  /\ held' = { [h EXCEPT !.ttl_left = @ - dt, !.waited = @ + dt] :
                        h \in held }
           /\ queues' = { [q EXCEPT !.idle_left = @ - dt] : q \in queues }
    /\ UNCHANGED <<policy, pc, message, fails, backoff_exc, local, published,
                   events, successes, free, returned_messages, target, dropped>>

\* consumer c is delivered a message from its queue, fails to process it and
\* calls republish with a new Backoff instance
ConsumerFails(c) ==
    /\ pc[c] = "done"
    /\ fails[c] < MaxFailures
    /\ \E d \in target :
          /\ d.queue = target_queue(c)
          /\ target' = target \ {d}
          /\ message' = [message EXCEPT ![c] = d.message]
    /\ pc' = [pc EXCEPT ![c] = "start"]
    /\ fails' = [fails EXCEPT ![c] = @ + 1]
    /\ backoff_exc' = [backoff_exc EXCEPT ![c] = Backoff_init]
    /\ local' = [local EXCEPT ![c] = NoLocals]
    /\ published' = [published EXCEPT ![c] = << >>]
    /\ events' = [events EXCEPT ![c] = << >>]
    /\ UNCHANGED <<policy, successes, free, returned_messages, queues, held,
                   dropped>>

Next ==
    \/ \E c \in Calls : RepublishNext(c)
    \/ \E c \in Calls : GetProducer(c)
    \/ \E c \in Calls : Prepare(c)
    \/ \E c \in Calls : MaybeDeclare(c)
    \/ \E c \in Calls : PublishDeclare(c)
    \/ \E c \in Calls : BasicPublish(c)
    \/ \E c \in Calls : Check(c)
    \/ \E c \in Calls : ConsumerFails(c)
    \/ \E h \in held : DeadLetter(h)
    \/ \E q \in queues : QueueExpire(q)
    \/ AdvanceTime

Spec == Init /\ [][Next]_vars

SpecPool == InitPool /\ [][Next]_vars

\* the statements of consumer c's republish call
CallStep(c) ==
    \/ RepublishNext(c)
    \/ GetProducer(c)
    \/ Prepare(c)
    \/ MaybeDeclare(c)
    \/ PublishDeclare(c)
    \/ BasicPublish(c)
    \/ Check(c)

\* republish runs in its caller's thread, which goes on to the next statement
\* whenever the broker has answered
SpecLive == Init /\ [][Next]_vars /\ \A c \in Calls : WF_vars(CallStep(c))

\* ------------------------------------------------------------------------
\* Backoff.next alone, over every policy and delivery history enumerated
\* ------------------------------------------------------------------------

DeathRecords ==
    { [exchange |-> e, queue |-> "q-" \o e \o format_int(n), count |-> n] :
        e \in {"backoff", "other"}, n \in 1 .. MaxCount }

Histories == UNION { [1 .. k -> DeathRecords] : k \in 0 .. MaxHistory }

NextHeaders ==
    { "trace" :> "t" } \cup
    { ("trace" :> "t") @@ ("x-death" :> h) : h \in Histories }

InitNext ==
    /\ schedule \in Schedules \cup { <<10, 20>> }
    /\ limit \in 0 .. MaxLimit
    /\ \E j \in Jitters :
          /\ random_sigma = j[1]
          /\ random_groups_per_sigma = j[2]
    /\ InitWith({1}, NextHeaders)

SpecNext == InitNext /\ [][\E c \in Calls : RepublishNext(c)]_vars

\* ------------------------------------------------------------------------
\* One Backoff instance over several calls of next, and its rendering
\* ------------------------------------------------------------------------

\* the headers of the messages next is called for: no history, one round in
\* a delay queue, two rounds and a record of another exchange
InstanceHeaders ==
    { "trace" :> "t",
      ("trace" :> "t") @@
      ("x-death" :> << [exchange |-> "backoff", queue |-> "backoff--2ms",
                        count |-> 1] >>),
      ("trace" :> "t") @@
      ("x-death" :> << [exchange |-> "backoff", queue |-> "backoff--2ms",
                        count |-> 2],
                       [exchange |-> "other", queue |-> "dlq", count |-> 1] >>) }

InitInstance ==
    /\ schedule = <<2, 4>>
    /\ limit \in 0 .. MaxLimit
    /\ \E j \in { <<0, 5>>, <<4, 2>> } :
          /\ random_sigma = j[1]
          /\ random_groups_per_sigma = j[2]
    /\ InitWith({1}, InstanceHeaders)

\* next is called again on the instance of consumer c, for another message
Again(c) ==
    /\ pc[c] \in {"get_producer", "Expired"}
    /\ fails[c] < MaxFailures
    /\ \E h \in InstanceHeaders : message' = [message EXCEPT ![c] = Message(h)]
    /\ pc' = [pc EXCEPT ![c] = "start"]
    /\ fails' = [fails EXCEPT ![c] = @ + 1]
    /\ local' = [local EXCEPT ![c] = NoLocals]
    /\ events' = [events EXCEPT ![c] = << >>]
    /\ UNCHANGED <<policy, backoff_exc, published, successes, free,
                   returned_messages, queues, held, target, dropped>>

\* str(backoff_exc) is called
Str(c) ==
    /\ pc[c] # "absent"
    /\ local' = [local EXCEPT ![c].shown = Backoff_str(backoff_exc[c])]
    /\ UNCHANGED <<policy, pc, message, fails, backoff_exc, published, events,
                   successes, free, returned_messages, queues, held, target,
                   dropped>>

NextInstance ==
    \/ \E c \in Calls : RepublishNext(c)
    \/ \E c \in Calls : Again(c)
    \/ \E c \in Calls : Str(c)

SpecInstance == InitInstance /\ [][NextInstance]_vars

\* ------------------------------------------------------------------------
\* Properties
\* ------------------------------------------------------------------------

RECURSIVE SumOver(_, _)
SumOver(S, f) ==
    IF S = {} THEN 0
    ELSE LET x == CHOOSE y \in S : TRUE IN f[x] + SumOver(S \ {x}, f)

\* the sum of the counts of the records of one exchange in a message's history
CountOf(msg, exchange_name) ==
    LET deaths == x_death(msg.headers)
    IN  SumOver({ i \in 1 .. Len(deaths) : deaths[i].exchange = exchange_name },
                [i \in 1 .. Len(deaths) |-> deaths[i].count])

\* Backoff.next has been called in consumer c's republish call
NextCalled(c) == pc[c] \notin {"absent", "start"}

\* Backoff.next returned a delay
NextReturned(c) == NextCalled(c) /\ pc[c] # "Expired"

\* C2: Backoff.next fails with Expired exactly when limit is positive and the
\* attempts counted in the history are at least limit; with limit 0 it never
\* fails with Expired.
C2_ExpiredIffLimitReached ==
    \A c \in Calls :
        NextCalled(c) =>
            /\ (pc[c] = "Expired") <=>
                   (limit > 0 /\ CountOf(message[c], "backoff") >= limit)
            /\ pc[c] = "Expired" => local[c].raised.type = "Expired"
            /\ limit = 0 => pc[c] # "Expired"

\* C2's case: Expired at exactly limit attempts, in a history that also holds
\* records of another exchange
C2_Witness ==
    \E c \in Calls :
        /\ pc[c] = "Expired"
        /\ local[c].raised.type = "Expired"
        /\ CountOf(message[c], "backoff") = limit
        /\ CountOf(message[c], "other") > 0

\* C5: the totalAttempts Backoff.next computes is the sum of the counts of
\* exactly the history records of the backoff exchange; no history gives 0.
C5_TotalAttemptsIsMatchingSum ==
    \A c \in Calls :
        NextReturned(c) =>
            /\ backoff_exc[c]._total_attempts = CountOf(message[c], "backoff")
            /\ "x-death" \notin DOMAIN message[c].headers =>
                   backoff_exc[c]._total_attempts = 0

\* C5's case: a history with a record of each exchange, of which only the
\* backoff exchange's is counted
C5_Witness ==
    \E c \in Calls :
        /\ NextReturned(c)
        /\ backoff_exc[c]._total_attempts = 2
        /\ CountOf(message[c], "other") > 0
        /\ x_death(message[c].headers)[1].exchange = "other"

\* C6: with sigma 0, a call of Backoff.next that does not fail returns
\* schedule[min(totalAttempts, length - 1)] (the schedule counted from 0).
C6_UnjitteredDelay ==
    \A c \in Calls :
        (random_sigma = 0 /\ NextReturned(c)) =>
            local[c].expiration =
                schedule[Min(CountOf(message[c], "backoff"), Len(schedule) - 1) + 1]

\* C6's case: more attempts than the schedule is long, the delay is its last item
C6_Witness ==
    \E c \in Calls :
        /\ random_sigma = 0
        /\ NextReturned(c)
        /\ schedule = <<10, 20>>
        /\ CountOf(message[c], "backoff") > Len(schedule)
        /\ local[c].expiration = 20

\* the jittered delay d is a multiple of sigma / groupsPerSigma
MultipleOfGroup(d) == (d * random_groups_per_sigma) % random_sigma = 0

\* C7 as stated: with sigma > 0 the delay is a non-negative integer and a
\* multiple of sigma / groupsPerSigma, whatever sigma and groupsPerSigma are.
C7_MultipleForEveryPair ==
    \A c \in Calls :
        (random_sigma > 0 /\ NextReturned(c)) =>
            /\ local[c].expiration \in Nat
            /\ MultipleOfGroup(local[c].expiration)

\* C7: with sigma > 0 the delay is a non-negative integer, and a multiple of
\* sigma / groupsPerSigma when groupsPerSigma divides sigma.
C7_MultipleWhenGroupIsWhole ==
    \A c \in Calls :
        (random_sigma > 0 /\ NextReturned(c)) =>
            /\ local[c].expiration \in Nat
            /\ random_sigma % random_groups_per_sigma = 0 =>
                   local[c].expiration % (random_sigma \div random_groups_per_sigma) = 0

\* C7's case: a group of 2 ms and a delay above zero that rounding changed
C7_Witness ==
    \E c \in Calls :
        /\ random_sigma = 4 /\ random_groups_per_sigma = 2
        /\ NextReturned(c)
        /\ local[c].expiration > 0
        /\ local[c].expiration # get_next_schedule_item(backoff_exc[c]._total_attempts)

\* C3: a republish call in which Backoff.next fails ends with that Expired
\* failure and has done nothing at the broker: no delay queue derived or
\* declared, no producer taken from the pool, no publish attempted.
C3_ExpiredBeforeAnyBrokerAction ==
    /\ [](\A c \in Calls :
            pc[c] = "Expired" =>
                /\ local[c].raised = [type |-> "Expired", cause |-> <<"Backoff", c>>]
                /\ local[c].queue = << >>
                /\ local[c].producer = << >>
                /\ events[c] = << >>
                /\ published[c] = << >>)
    /\ [][\A c \in Calls :
            (pc[c] # "Expired" /\ pc'[c] = "Expired") =>
                /\ pc[c] = "start"
                /\ UNCHANGED <<queues, held, free, returned_messages>>]_vars

\* C3's case: Expired in a call for a message that went through delay queues
\* before
C3_Witness ==
    \E c \in Calls :
        /\ pc[c] = "Expired"
        /\ successes[c] = 2
        /\ queues # {}

\* C4: with a positive limit L, republish succeeds at most L times for one
\* message, the history of each delivery counts the successes before it, and
\* the call made once the history shows L attempts ends in Expired.
C4_RetryCeiling ==
    \A c \in Calls :
        limit > 0 =>
            /\ successes[c] <= limit
            /\ pc[c] # "absent" =>
                   CountOf(message[c], "backoff") =
                       successes[c] - (IF pc[c] = "done" THEN 1 ELSE 0)
            /\ (NextCalled(c) /\ CountOf(message[c], "backoff") >= limit) =>
                   pc[c] = "Expired"

\* C4's case: the limit of 2 reached after two successful republishes
C4_Witness ==
    \E c \in Calls :
        /\ limit = 2
        /\ successes[c] = 2
        /\ fails[c] = 3
        /\ pc[c] = "Expired"

\* C8: every publish attempt of republish carries a per-message expiration
\* equal to the delay Backoff.next computed for the call, the duration that is
\* in the backoff header and in the name of the delay queue.
C8_ExpirationIsTheDelay ==
    \A c \in Calls :
        \A i \in 1 .. Len(published[c]) :
            /\ published[c][i].headers["backoff"] = local[c].expiration
            /\ published[c][i].declare[2].name =
                   get_backoff_queue_name(local[c].expiration)
            /\ published[c][i].expiration = local[c].expiration

\* C1: a message republish returned success for comes back to its target
\* queue, not before the delay has passed, and is not lost with its delay
\* queue when that queue expires: a message that entered a delay queue with
\* more than the delay left of the queue's x-expires time is never dropped.
C1_BackAfterTheDelay ==
    /\ \A h \in dropped :
          (pc[h.message.call[1]] = "done" /\ fails[h.message.call[1]] = h.message.call[2])
              => h.queue_left <= h.delay
    /\ \A d \in target :
          /\ d.queue = target_queue(d.call[1])
          /\ d.waited >= d.delay

\* the copies of the message that the attempts of consumer c's call left at
\* the broker
Copies(c) ==
    { h \in held \cup dropped : h.message.call = <<c, fails[c]>> }

DeadLetteredCopies(c) == { d \in target : d.call = <<c, fails[c]>> }

\* C9: a republish call that returned has left exactly one copy of the
\* message, in the delay queue of its delay; one that ended in
\* UndeliverableMessage has left none; and an attempt is made only when no
\* earlier attempt of the call was routed.
C9_ExactlyOneCopy ==
    \A c \in Calls :
        /\ pc[c] = "done" =>
              /\ Cardinality(Copies(c)) + Cardinality(DeadLetteredCopies(c)) = 1
              /\ \A h \in Copies(c) :
                    h.queue = get_backoff_queue_name(local[c].expiration)
              /\ \A d \in DeadLetteredCopies(c) :
                    d.from = get_backoff_queue_name(local[c].expiration)
        /\ pc[c] \in {"UndeliverableMessage", "publish", "basic_publish"} =>
              /\ Copies(c) = {}
              /\ DeadLetteredCopies(c) = {}

\* C9's case: a call for a redelivered message that returned after two
\* attempts the broker did not route
C9_Witness ==
    \E c \in Calls :
        /\ pc[c] = "done"
        /\ fails[c] = 2
        /\ Len(published[c]) = 3
        /\ Cardinality(Copies(c)) = 1

\* C10: the return a call's check takes off its channel is the return of the
\* call's own latest publish attempt, and a channel holds no return but that
\* of the attempt whose check is due; none is left on a channel in the pool.
C10_OwnReturnsOnly ==
    /\ \A c \in Calls :
          local[c].returned # << >> =>
              /\ local[c].returned.call = <<c, fails[c]>>
              /\ local[c].returned.number = Len(published[c])
    /\ \A ch \in Channels :
          \A i \in 1 .. Len(returned_messages[ch]) :
              \E c \in Calls :
                  /\ pc[c] = "check"
                  /\ local[c].producer = ch
                  /\ ch \notin free
                  /\ returned_messages[ch][i].call = <<c, fails[c]>>
                  /\ returned_messages[ch][i].number = Len(published[c])

\* C10's case: two calls that each took a return off the same channel, one
\* while the other call was at its own check on the other channel
C10_Witness ==
    \E c1, c2 \in Calls :
        /\ c1 # c2
        /\ local[c1].returned # << >>
        /\ local[c2].returned # << >>
        /\ local[c1].producer = local[c2].producer
        /\ pc[c1] = "UndeliverableMessage"

\* how many times a step was taken in consumer c's republish call
CountEvents(c, name) ==
    Cardinality({ i \in 1 .. Len(events[c]) : events[c][i] = name })

Ended == {"done", "Expired", "UndeliverableMessage", "ChannelError"}

\* C12: every republish call ends; a call makes at most max_attempts + 1
\* publish attempts; the call whose attempts were all undeliverable ends in
\* UndeliverableMessage, raised to the caller, after exactly that many
\* attempts, and success is reported only for an attempt the broker accepted.
C12_RepublishTerminates ==
    /\ \A c \in Calls : (pc[c] = "start") ~> (pc[c] \in Ended)
    /\ [](\A c \in Calls :
            /\ Len(published[c]) <= max_attempts + 1
            /\ local[c].counter <= max_attempts
            /\ pc[c] = "UndeliverableMessage" =>
                  /\ local[c].raised = [type |-> "UndeliverableMessage"]
                  /\ Len(published[c]) = max_attempts + 1
                  /\ Copies(c) = {} /\ DeadLetteredCopies(c) = {}
            /\ pc[c] = "done" =>
                  Copies(c) \cup DeadLetteredCopies(c) # {}
            /\ (pc[c] \in {"publish", "basic_publish", "check"}
                    /\ Len(published[c]) = max_attempts + 1) =>
                  pc[c] = "check")

\* C12's case: the retries exhausted in the call for a redelivered message
C12_Witness ==
    \E c \in Calls :
        /\ pc[c] = "UndeliverableMessage"
        /\ Len(published[c]) = max_attempts + 1
        /\ fails[c] = 2

\* the step ends an attempt of consumer c's call in UndeliverableMessage:
\* the retry decorator counts it or raises it
EndsUndeliverable(c) ==
    \/ local'[c].counter = local[c].counter + 1
    \/ pc[c] # "UndeliverableMessage" /\ pc'[c] = "UndeliverableMessage"

\* the step is a publish on which the transport raised NO_ROUTE
RaisedNoRoute(c) ==
    /\ pc[c] = "basic_publish"
    /\ Route(Attempt(c).headers) = {}
    /\ events'[c] = events[c] \o <<"publish", "channel_error">>

\* the step is the check of an attempt, with a return on the channel or none
ReturnPending(c) ==
    /\ pc[c] = "check"
    /\ events'[c] # events[c]
    /\ returned_messages[local[c].producer] # << >>

NoReturnPending(c) ==
    /\ pc[c] = "check"
    /\ events'[c] # events[c]
    /\ returned_messages[local[c].producer] = << >>

\* the step is a producer.publish on which the transport raised another error
RaisedOtherError(c) ==
    /\ pc[c] = "publish"
    /\ events'[c] = Append(events[c], "channel_error")

\* C13: an attempt ends in UndeliverableMessage exactly when the transport
\* raised a NO_ROUTE channel error or a return is on the channel right after
\* the publish; the check is always able to run and with no return the call
\* succeeds; another channel error ends the call with that error, is not
\* counted as undeliverable and is followed by no further attempt.
C13_UndeliverableIffNoRouteOrReturn ==
    /\ [](\A c \in Calls :
            /\ pc[c] = "check" => ENABLED Check(c)
            /\ pc[c] = "ChannelError" =>
                  /\ local[c].raised \in DeclareErrors
                  /\ ~IsNoRoute(local[c].raised))
    /\ [][\A c \in Calls :
            /\ EndsUndeliverable(c) <=> (RaisedNoRoute(c) \/ ReturnPending(c))
            /\ NoReturnPending(c) => pc'[c] = "done"
            /\ RaisedOtherError(c) =>
                  /\ pc'[c] = "ChannelError"
                  /\ local'[c].raised \in DeclareErrors
                  /\ ~EndsUndeliverable(c)
                  /\ published'[c] = published[c]
            /\ pc[c] = "ChannelError" => pc'[c] = "ChannelError"]_vars

\* C13's case: a call whose first attempt came back as a returned message and
\* whose second attempt the broker answered with another channel error
C13_Witness ==
    \E c \in Calls :
        /\ pc[c] = "ChannelError"
        /\ local[c].counter = 1
        /\ local[c].returned # << >>
        /\ local[c].raised.text = <<"PRECONDITION_FAILED">>

\* C14: every publish attempt of republish sends the body of the original
\* message to the headers exchange named backoff, with the caller's target
\* queue name as routing key, the mandatory flag set, and the delay exchange
\* and the delay queue of the call's delay in its declare list.
C14_AttemptAddressing ==
    \A c \in Calls :
        \A i \in 1 .. Len(published[c]) :
            LET a == published[c][i]
            IN  /\ a.body = message[c].body
                /\ a.body = "body"
                /\ a.exchange = [type |-> "headers", name |-> "backoff"]
                /\ a.routing_key = target_queue(c)
                /\ a.mandatory
                /\ a.declare = <<[type |-> "headers", name |-> "backoff"],
                                 make_queue(backoff_exc[c]._next_expiration)>>

\* C14's case: the second attempt of the call for a redelivered message,
\* whose delay is the second item of the schedule
C14_Witness ==
    \E c \in Calls :
        /\ random_sigma = 0
        /\ fails[c] = 2
        /\ Len(published[c]) = 2
        /\ published[c][2].declare[2].name = get_backoff_queue_name(schedule[2])
        /\ published[c][2].routing_key = target_queue(c)

\* the delay queues that calls in progress have derived
Derived == { c \in Calls : local[c].queue # << >> }

\* C15: the queue derived for a delay d has the name "backoff--{d}ms", the
\* backoff exchange, the binding arguments {backoff: d, x-match: "any"} and
\* the queue arguments {x-expires: d + 50000, x-dead-letter-exchange: ""};
\* the broker holds one queue per name, whose arguments are those of its
\* delay, declaring a queue again changes nothing but its idle time, and
\* queues of different delays have different names.
C15_QueueOfDelay ==
    /\ \A c \in Derived :
          LET d == local[c].expiration
              q == local[c].queue
          IN  /\ q.name = "backoff--" \o format_int(d) \o "ms"
              /\ d = 0 => q.name = "backoff--0ms"
              /\ d = 4 => q.name = "backoff--4ms"
              /\ d = 10000 => q.name = "backoff--10000ms"
              /\ d = 9980 => q.name = "backoff--9980ms"
              /\ q.exchange = [type |-> "headers", name |-> "backoff"]
              /\ DOMAIN q.binding_arguments = {"backoff", "x-match"}
              /\ q.binding_arguments["backoff"] = d
              /\ q.binding_arguments["x-match"] = "any"
              /\ DOMAIN q.queue_arguments = {"x-expires", "x-dead-letter-exchange"}
              /\ q.queue_arguments["x-expires"] = d + 50000
              /\ q.queue_arguments["x-dead-letter-exchange"] = ""
              /\ q = make_queue(d)
              /\ Declare(Declare(queues, q), q) = Declare(queues, q)
              /\ Cardinality({ x \in Declare(queues, q) : x.name = q.name }) = 1
              /\ \A x \in queues :
                    x.name = q.name =>
                        /\ x.binding_arguments = q.binding_arguments
                        /\ x.queue_arguments = q.queue_arguments
    /\ \A q1, q2 \in queues :
          /\ (q1.name = q2.name) <=>
                 (q1.binding_arguments["backoff"] = q2.binding_arguments["backoff"])
          /\ q1.name = q2.name => q1 = q2
    /\ \A c1, c2 \in Derived :
          (local[c1].queue.name = local[c2].queue.name) <=>
              (local[c1].expiration = local[c2].expiration)

\* C15's case: the queues of two delays at the broker, one of them declared
\* again by the call in progress
C15_Witness ==
    \E q1, q2 \in queues :
        /\ q1.name = "backoff--2ms"
        /\ q2.name = "backoff--4ms"
        /\ q2.queue_arguments["x-expires"] = 50004
        /\ \E c \in Derived :
              /\ local[c].queue.name = q2.name
              /\ CountEvents(c, "declare") = 2

\* new is old with only the key backoff set to d
OnlyBackoffSet(old, new, d) ==
    /\ DOMAIN new = DOMAIN old \cup {"backoff"}
    /\ new["backoff"] = d
    /\ \A k \in DOMAIN old \ {"backoff"} : new[k] = old[k]

\* C16: the headers republish publishes are the headers the message had when
\* republish was called with only the key backoff set to the delay of the
\* call; every other header, the x-death history among them, is as it was,
\* and every attempt of the call carries these same headers.
C16_OnlyBackoffHeaderSet ==
    /\ [](\A c \in Calls :
            \A i \in 1 .. Len(published[c]) :
                /\ published[c][i].headers = local[c].headers
                /\ published[c][i].headers["backoff"] =
                       backoff_exc[c]._next_expiration)
    /\ [][\A c \in Calls :
            /\ (pc[c] = "prepare" /\ pc'[c] # "prepare") =>
                  /\ OnlyBackoffSet(message[c].headers, local'[c].headers,
                                    local[c].expiration)
                  /\ x_death(local'[c].headers) = x_death(message[c].headers)
            /\ (pc[c] \in {"maybe_declare", "publish", "basic_publish", "check"}) =>
                  local'[c].headers = local[c].headers]_vars

\* C16's case: the call for a message that came back from the 2 ms queue,
\* with its x-death history and the backoff header of that round
C16_Witness ==
    \E c \in Calls :
        /\ fails[c] = 2
        /\ Len(published[c]) = 1
        /\ published[c][1].headers["backoff"] = 4
        /\ x_death(published[c][1].headers)[1].queue = "backoff--2ms"
        /\ Len(x_death(published[c][1].headers)) = 2
        /\ published[c][1].headers["trace"] = "t"

\* C17: an Expired failure raised by Backoff.next has as its cause the
\* Backoff instance next was called on, the one of that republish call, and
\* nothing else is ever raised by next.
C17_ExpiredCauseIsTheInstance ==
    \A c \in Calls :
        /\ pc[c] = "Expired" =>
              /\ local[c].raised.type = "Expired"
              /\ local[c].raised.cause # << >>
              /\ local[c].raised.cause = <<"Backoff", c>>
              /\ \A o \in Calls \ {c} : local[c].raised.cause # <<"Backoff", o>>
        /\ (local[c].raised # << >> /\ local[c].raised.type = "Expired") =>
              pc[c] = "Expired"

\* C17's case: two calls, each with its own Backoff instance, ended in Expired
C17_Witness ==
    \E c1, c2 \in Calls :
        /\ c1 # c2
        /\ pc[c1] = "Expired" /\ pc[c2] = "Expired"
        /\ local[c1].raised.cause = <<"Backoff", c1>>
        /\ local[c2].raised.cause = <<"Backoff", c2>>

\* the order of the steps of consumer c's call, the step that follows a
\* publish attempt being one of after
StepOrder(c, after) ==
    LET e == events[c]
    IN  /\ e # << >> => e[1] = "make_queue"
        /\ CountEvents(c, "make_queue") <= 1
        /\ CountEvents(c, "get_producer") <= 1
        /\ \A i \in 1 .. Len(e) :
              /\ e[i] = "declare" =>
                    \E j \in 1 .. i - 1 : e[j] = "get_producer"
              /\ e[i] = "publish" =>
                    /\ i > 1 /\ e[i - 1] = "declare"
                    /\ IF i < Len(e) THEN e[i + 1] \in after ELSE pc[c] = "check"
              /\ e[i] = "check" => i > 1 /\ e[i - 1] = "publish"

\* the outcome of consumer c's call, when it has ended, and what was raised
Outcome(c) ==
    /\ pc[c] = "done" =>
          /\ local[c].raised = << >>
          /\ events[c][Len(events[c])] = "check"
    /\ pc[c] = "Expired" =>
          /\ local[c].raised.type = "Expired"
          /\ events[c] = << >>
    /\ pc[c] = "UndeliverableMessage" =>
          /\ local[c].raised.type = "UndeliverableMessage"
          /\ events[c][Len(events[c])] \in {"check", "channel_error"}
    /\ pc[c] = "ChannelError" =>
          /\ local[c].raised.type = "ChannelError"
          /\ events[c][Len(events[c])] = "channel_error"
    /\ (local[c].raised # << >>) <=>
          (pc[c] \in {"Expired", "UndeliverableMessage", "ChannelError"})

\* a call that has ended stays as it ended; the next thing its consumer does
\* is a new call, for the next delivery
OutcomeIsFinal ==
    \A c \in Calls :
        (pc[c] \in Ended /\ pc'[c] # pc[c]) =>
            (pc[c] = "done" /\ pc'[c] = "start")

\* C18 as stated: the delay is computed first, the queue declared before any
\* publish attempt, every publish attempt is followed by its return check, and
\* the call ends in one of success, Expired, UndeliverableMessage and a
\* broker error.
C18_CheckAfterEveryPublish ==
    /\ [](\A c \in Calls : StepOrder(c, {"check"}) /\ Outcome(c))
    /\ [][OutcomeIsFinal]_vars

\* C18: the delay is computed first, the queue declared before any publish
\* attempt, every publish attempt the transport completed is followed by its
\* return check, one on which it raised a channel error by the handling of
\* that error and no check, before the next attempt or the end of the call,
\* and the call ends in one of success, Expired, UndeliverableMessage and a
\* broker error.
C18_StepOrder ==
    /\ [](\A c \in Calls : StepOrder(c, {"check", "channel_error"}) /\ Outcome(c))
    /\ [][OutcomeIsFinal]_vars

\* C18's case: a call that succeeded at its third attempt, after one attempt
\* found returned by the check and one on which the transport raised NO_ROUTE
C18_Witness ==
    \E c \in Calls :
        /\ pc[c] = "done"
        /\ CountEvents(c, "publish") = 3
        /\ CountEvents(c, "check") = 2
        /\ CountEvents(c, "channel_error") = 1

\* C19: no step of a republish call changes the message it was called for:
\* its properties and headers stay as they were when the call began.
C19_OriginalMessageUntouched ==
    [][\A c \in Calls :
          ~(pc[c] = "done" /\ pc'[c] = "start") => message'[c] = message[c]]_vars

\* the rendering of an instance on which the last call of next that returned
\* counted total attempts and returned delay d
Rendering(total, d) ==
    "Backoff(retry #" \o format_int(total + 1) \o " in " \o format_int(d) \o "ms)"

\* C20: a Backoff instance records nothing until a call of next on it
\* returns, then the attempts counted and the delay returned by the last call
\* that returned; a call that fails with Expired leaves the record as it was;
\* its rendering is "uninitialised" while nothing is recorded and "retry #N in
\* Dms" with N the recorded attempts + 1 and D the recorded delay afterwards,
\* a delay of 0 included.
C20_RecordOfLastSuccessfulNext ==
    /\ [](\A c \in Calls :
            (fails[c] <= 1 /\ pc[c] \in {"absent", "start"}) =>
                backoff_exc[c] = [_total_attempts |-> None,
                                  _next_expiration |-> None])
    /\ [][\A c \in Calls :
            /\ (pc[c] = "start" /\ pc'[c] = "get_producer") =>
                  /\ backoff_exc'[c]._total_attempts = CountOf(message[c], "backoff")
                  /\ backoff_exc'[c]._next_expiration = local'[c].expiration
                  /\ local'[c].expiration >= 0
            /\ ~(pc[c] = "start" /\ pc'[c] = "get_producer") =>
                  backoff_exc'[c] = backoff_exc[c]
            /\ local'[c].shown \notin {"", local[c].shown} =>
                  local'[c].shown =
                      IF backoff_exc[c]._next_expiration = None
                      THEN "Backoff(uninitialised)"
                      ELSE Rendering(backoff_exc[c]._total_attempts,
                                     backoff_exc[c]._next_expiration)]_vars

\* C20's case: an instance whose first call of next returned a delay of 0,
\* rendered after a second call that failed with Expired
C20_Witness ==
    \E c \in Calls :
        /\ pc[c] = "Expired"
        /\ fails[c] = 2
        /\ backoff_exc[c]._next_expiration = 0
        /\ local[c].shown = "Backoff(retry #1 in 0ms)"

====
